---- MODULE Spec2Model ----
(***************************************************************************)
(* PESUConnect, Streamlit front end (frontend.py).                         *)
(*                                                                         *)
(* One browser session of the web front end against the relational         *)
(* database.  A script run of main() is three steps: the session-state     *)
(* initialisation (MainInit), connect_to_db (ConnectOk / ConnectFail) and  *)
(* the routing with the page that handles the widget event of this run.    *)
(* Every data-access function db_* is an operator from the committed       *)
(* database to the set of its outcomes: any statement sent to the server   *)
(* may raise mysql.connector.Error, so each function has its error         *)
(* outcomes next to its normal one.                                        *)
(***************************************************************************)
EXTENDS Integers, Sequences, FiniteSets, Bags, TLC

\* ------------------------------------------------------------------ bounds
MaxStudents == 2
MaxProjects == 1
MaxApplications == 1
MaxSkills == 2
MaxReviews == 2
MaxPayments == 1
MaxOpenConns == 2

\* ------------------------------------------------------------------ inputs
\* "" is the empty text field.
Emails == {"", "a", "b"}
Passwords == {"", "p", "q"}
Names == {"", "n"}
Departments == {"", "cse"}
Titles == {"", "t"}
Descriptions == {"", "d"}
SkillNames == {"", "py"}
ReviewTexts == {"", "ok"}
\* st.slider("Rating (1-5)", 1, 5, 5)
Ratings == {5}
\* st.number_input("Payment Amount", min_value=0.01): never zero
Amounts == {10}
PaymentMethods == {"UPI"}
ProficiencyLevels == {"Beginner", "Intermediate", "Advanced"}

\* Python's None; session values and return values are compared with it.
None == [none |-> TRUE]

\* ------------------------------------------------------------------ tables
\* The committed database.  Student, Project, Application, Contract and
\* Skill rows carry their auto-increment key, so these tables are sets;
\* Student_Skill, Review and Payment are bags: nothing in the front end
\* keeps two equal rows apart.
EmptyDb ==
  [Student |-> {}, Project |-> {}, Application |-> {}, Contract |-> {},
   Skill |-> {}, Student_Skill |-> EmptyBag, Review |-> EmptyBag,
   Payment |-> EmptyBag]

\* The database the session starts on: one registered student.
SeedDb ==
  [EmptyDb EXCEPT !.Student =
     {[student_id |-> 1, name |-> "n", email |-> "a", password |-> "p"]}]

MaxOf(S) == IF S = {} THEN 0 ELSE CHOOSE m \in S : \A x \in S : x <= m

\* AUTO_INCREMENT: the key of the next row of a table.
NextId(rows, key) == MaxOf({r[key] : r \in rows}) + 1

\* The rows of a bag that are in S, with their multiplicities.
BagRestrict(b, S) == [r \in S \cap DOMAIN b |-> b[r]]

\* A set of rows as the list a cursor returns, ordered by key.
RECURSIVE RowsByKey(_, _)
RowsByKey(rows, key) ==
  IF rows = {} THEN <<>>
  ELSE LET r == CHOOSE x \in rows : \A y \in rows : x[key] <= y[key]
       IN  <<r>> \o RowsByKey(rows \ {r}, key)

\* ------------------------------------------------------------------ outcomes
\* What one call of a data-access function did: the database it left
\* committed, the value it returned, and the record of the call (err: the
\* server raised; rb: conn.rollback() was called; commit: conn.commit();
\* undone: the rollback discarded rows the call had inserted).
Outcome(fn, arg, db2, ret, err, rb, cm, undone) ==
  [db |-> db2, ret |-> ret,
   log |-> [fn |-> fn, arg |-> arg, ret |-> ret, err |-> err, rb |-> rb,
            commit |-> cm, undone |-> undone]]

\* Rollback on a connection that does not hold the statements back
\* (autocommit): the rows already written stay.
Rollback_KeepWork(committed, work) == work

\* conn.rollback(): the statements of the open transaction (work) are
\* undone, the committed database is what remains.
Rollback(committed, work) == committed

\* Failed without the conn.rollback() of the except-branch.
Failed_NoRollback(fn, arg, db, work, ret) ==
  Outcome(fn, arg, work, ret, TRUE, FALSE, FALSE, FALSE)

\* The except-branch of a function that writes: st.error, conn.rollback(),
\* return the failure value.
Failed(fn, arg, db, work, ret) ==
  Outcome(fn, arg, Rollback(db, work), ret, TRUE, TRUE, FALSE, work # db)

\* The except-branch of a function that only reads: st.error and the
\* failure value; conn.rollback() is not called.
FailedRead(fn, arg, db, ret) ==
  Outcome(fn, arg, db, ret, TRUE, FALSE, FALSE, FALSE)

\* A read that succeeded: no commit, no rollback.
Read(fn, arg, db, ret) == Outcome(fn, arg, db, ret, FALSE, FALSE, FALSE, FALSE)

\* A write that succeeded and was committed.
Committed(fn, arg, db2, ret) ==
  Outcome(fn, arg, db2, ret, FALSE, FALSE, TRUE, FALSE)

\* ------------------------------------------------------------------ schema
\* The stored procedures and constraints of the schema.  Each yields
\* [ok, db]: ok = FALSE is the procedure or the constraint raising an
\* error, which reaches the caller as mysql.connector.Error.

\* sp_StudentLogin: the rows of Student with this email and password.
sp_StudentLogin(db, email, password) ==
  {[student_id |-> s.student_id, name |-> s.name, email |-> s.email] :
     s \in {x \in db.Student : x.email = email /\ x.password = password}}

\* INSERT INTO Student: the email is unique (the page reports "Email may
\* already be in use" when the insert fails).
InsertStudent(db, name, email, password) ==
  IF \/ \E s \in db.Student : s.email = email
     \/ Cardinality(db.Student) >= MaxStudents
  THEN [ok |-> FALSE, db |-> db]
  ELSE [ok |-> TRUE,
        db |-> [db EXCEPT !.Student = @ \cup
                 {[student_id |-> NextId(db.Student, "student_id"),
                   name |-> name, email |-> email, password |-> password]}]]

\* sp_SearchProjects(NULL, 'Open')
sp_SearchProjects(db, status) ==
  RowsByKey({p \in db.Project : p.status = status}, "project_id")

\* sp_CreateApplication: not on one's own project, not twice.
sp_CreateApplication(db, user_id, project_id) ==
  IF \/ ~ \E p \in db.Project : p.project_id = project_id /\ p.student_id # user_id
     \/ \E a \in db.Application : a.student_id = user_id /\ a.project_id = project_id
     \/ Cardinality(db.Application) >= MaxApplications
  THEN [ok |-> FALSE, db |-> db]
  ELSE [ok |-> TRUE,
        db |-> [db EXCEPT !.Application = @ \cup
                 {[application_id |-> NextId(db.Application, "application_id"),
                   student_id |-> user_id, project_id |-> project_id,
                   status |-> "Pending"]}]]

\* sp_CreateProject: a new project is Open.
sp_CreateProject(db, user_id) ==
  IF Cardinality(db.Project) >= MaxProjects
  THEN [ok |-> FALSE, db |-> db]
  ELSE [ok |-> TRUE,
        db |-> [db EXCEPT !.Project = @ \cup
                 {[project_id |-> NextId(db.Project, "project_id"),
                   student_id |-> user_id, status |-> "Open"]}]]

\* fn_GetProjectApplicationCount
fn_GetProjectApplicationCount(db, project_id) ==
  Cardinality({a \in db.Application :
                 a.project_id = project_id /\ a.status = "Pending"})

\* sp_AcceptApplication: Pending -> Accepted, the project Open -> In
\* Progress, and the contract of the applicant is created.
sp_AcceptApplication(db, app_id) ==
  IF ~ \E a \in db.Application, p \in db.Project :
         /\ a.application_id = app_id /\ a.status = "Pending"
         /\ p.project_id = a.project_id /\ p.status = "Open"
  THEN [ok |-> FALSE, db |-> db]
  ELSE LET a == CHOOSE x \in db.Application : x.application_id = app_id
           p == CHOOSE x \in db.Project : x.project_id = a.project_id
       IN  [ok |-> TRUE,
            db |-> [db EXCEPT
                     !.Application = (@ \ {a}) \cup {[a EXCEPT !.status = "Accepted"]},
                     !.Project = (@ \ {p}) \cup {[p EXCEPT !.status = "In Progress"]},
                     !.Contract = @ \cup
                       {[contract_id |-> NextId(db.Contract, "contract_id"),
                         project_id |-> p.project_id,
                         student_id |-> a.student_id]}]]

\* sp_RejectApplication: Pending -> Rejected.
sp_RejectApplication(db, app_id) ==
  IF ~ \E a \in db.Application : a.application_id = app_id /\ a.status = "Pending"
  THEN [ok |-> FALSE, db |-> db]
  ELSE LET a == CHOOSE x \in db.Application : x.application_id = app_id
       IN  [ok |-> TRUE,
            db |-> [db EXCEPT !.Application =
                     (@ \ {a}) \cup {[a EXCEPT !.status = "Rejected"]}]]

\* sp_CompleteContract: the project of the contract becomes Completed.
sp_CompleteContract(db, contract_id) ==
  IF ~ \E c \in db.Contract : c.contract_id = contract_id
  THEN [ok |-> FALSE, db |-> db]
  ELSE LET c == CHOOSE x \in db.Contract : x.contract_id = contract_id
       IN  [ok |-> TRUE,
            db |-> [db EXCEPT !.Project =
                     {IF p.project_id = c.project_id
                      THEN [p EXCEPT !.status = "Completed"] ELSE p : p \in @}]]

\* sp_CreateReview: a review of the contract's freelancer by reviewer_id.
sp_CreateReview(db, review_text, rating, contract_id, reviewer_id) ==
  IF \/ ~ \E c \in db.Contract : c.contract_id = contract_id
     \/ BagCardinality(db.Review) >= MaxReviews
  THEN [ok |-> FALSE, db |-> db]
  ELSE LET c == CHOOSE x \in db.Contract : x.contract_id = contract_id
       IN  [ok |-> TRUE,
            db |-> [db EXCEPT !.Review = @ (+) SetToBag(
                     {[contract_id |-> contract_id, student_id |-> c.student_id,
                       reviewer_id |-> reviewer_id, rating |-> rating,
                       review_text |-> review_text]})]]

\* fn_GetStudentReviewCount
fn_GetStudentReviewCount(db, user_id) ==
  BagCardinality(BagRestrict(db.Review,
    {r \in DOMAIN db.Review : r.student_id = user_id}))

\* ------------------------------------------------------------------ data access
\* Each db_* function: the set of its outcomes on the committed database.

db_student_login(db, email, password) ==
  LET arg  == [email |-> email, password |-> password]
      rows == sp_StudentLogin(db, email, password)
      user == IF rows = {} THEN None
              ELSE CHOOSE u \in rows : \A v \in rows : u.student_id <= v.student_id
  IN  {FailedRead("db_student_login", arg, db, None),
       Read("db_student_login", arg, db, user)}

db_student_register(db, name, email, password) ==
  LET arg == [email |-> email]
      ins == InsertStudent(db, name, email, password)
  IN  {Failed("db_student_register", arg, db, db, FALSE)} \cup
      (IF ins.ok THEN {Committed("db_student_register", arg, ins.db, TRUE)}
       ELSE {})

db_get_open_projects(db) ==
  {FailedRead("db_get_open_projects", None, db, <<>>),
   Read("db_get_open_projects", None, db, sp_SearchProjects(db, "Open"))}

db_apply_for_project(db, user_id, project_id) ==
  LET arg == [user_id |-> user_id, project_id |-> project_id]
      sp  == sp_CreateApplication(db, user_id, project_id)
  IN  {Failed("db_apply_for_project", arg, db, db, FALSE)} \cup
      (IF sp.ok THEN {Committed("db_apply_for_project", arg, sp.db, TRUE)}
       ELSE {})

db_create_project(db, user_id, title, description) ==
  LET arg == [user_id |-> user_id]
      sp  == sp_CreateProject(db, user_id)
  IN  {Failed("db_create_project", arg, db, db, FALSE)} \cup
      (IF sp.ok THEN {Committed("db_create_project", arg, sp.db, TRUE)}
       ELSE {})

db_get_my_projects(db, user_id) ==
  LET arg  == [user_id |-> user_id]
      rows == {[project_id |-> p.project_id, status |-> p.status,
                pending_apps |-> fn_GetProjectApplicationCount(db, p.project_id)] :
                 p \in {x \in db.Project : x.student_id = user_id}}
  IN  {FailedRead("db_get_my_projects", arg, db, <<>>),
       Read("db_get_my_projects", arg, db, RowsByKey(rows, "project_id"))}

db_get_pending_applications(db, project_id) ==
  LET arg  == [project_id |-> project_id]
      rows == {[application_id |-> a.application_id, applicant_id |-> a.student_id] :
                 a \in {x \in db.Application :
                          x.project_id = project_id /\ x.status = "Pending"}}
  IN  {FailedRead("db_get_pending_applications", arg, db, <<>>),
       Read("db_get_pending_applications", arg, db,
            RowsByKey(rows, "application_id"))}

db_accept_application(db, app_id) ==
  LET arg == [app_id |-> app_id]
      sp  == sp_AcceptApplication(db, app_id)
  IN  {Failed("db_accept_application", arg, db, db, FALSE)} \cup
      (IF sp.ok THEN {Committed("db_accept_application", arg, sp.db, TRUE)}
       ELSE {})

db_reject_application(db, app_id) ==
  LET arg == [app_id |-> app_id]
      sp  == sp_RejectApplication(db, app_id)
  IN  {Failed("db_reject_application", arg, db, db, FALSE)} \cup
      (IF sp.ok THEN {Committed("db_reject_application", arg, sp.db, TRUE)}
       ELSE {})

\* Student_Skill JOIN Skill for one student.
db_get_my_skills(db, user_id) ==
  LET arg  == [user_id |-> user_id]
      rows == {[skill_id |-> s.skill_id, skill_name |-> s.skill_name,
                proficiency_level |-> ss.proficiency_level] :
                 <<ss, s>> \in {y \in (DOMAIN db.Student_Skill) \X db.Skill :
                                  /\ y[1].skill_id = y[2].skill_id
                                  /\ y[1].student_id = user_id}}
  IN  {FailedRead("db_get_my_skills", arg, db, {}),
       Read("db_get_my_skills", arg, db, rows)}

\* INSERT INTO Skill (skill_name): the table with the new row.
InsertSkill(db, skill_name) ==
  [db EXCEPT !.Skill = @ \cup
     {[skill_id |-> NextId(db.Skill, "skill_id"), skill_name |-> skill_name]}]

\* INSERT INTO Student_Skill (student_id, skill_id, proficiency_level)
InsertStudentSkill(db, user_id, skill_id, proficiency) ==
  [db EXCEPT !.Student_Skill = @ (+) SetToBag(
     {[student_id |-> user_id, skill_id |-> skill_id,
       proficiency_level |-> proficiency]})]

\* HasSkillNamed without query_check_user (lines 193-201).
HasSkillNamed_Never(db, user_id, skill_name) == FALSE

\* query_check_user: does this student have a skill of this name?
HasSkillNamed(db, user_id, skill_name) ==
  \E ss \in DOMAIN db.Student_Skill, s \in db.Skill :
     /\ ss.skill_id = s.skill_id
     /\ ss.student_id = user_id
     /\ s.skill_name = skill_name

\* SELECT skill_id FROM Skill WHERE skill_name = %s, fetchone()
SkillNamed(db, skill_name) ==
  LET rows == {s \in db.Skill : s.skill_name = skill_name}
  IN  IF rows = {} THEN None
      ELSE CHOOSE s \in rows : \A t \in rows : s.skill_id <= t.skill_id

db_add_skill(db, user_id, skill_name, proficiency) ==
  LET arg   == [user_id |-> user_id, skill_name |-> skill_name]
      skill == SkillNamed(db, skill_name)
      \* the transaction after the Skill row is there
      work1 == IF skill # None THEN db ELSE InsertSkill(db, skill_name)
      lastrowid == NextId(db.Skill, "skill_id")
      skill_id == IF skill # None THEN skill.skill_id
                  ELSE IF lastrowid # 0 THEN lastrowid
                  ELSE SkillNamed(work1, skill_name).skill_id
      work2 == InsertStudentSkill(work1, user_id, skill_id, proficiency)
  IN  \* query_check_user or the SELECT on Skill raises
      {Failed("db_add_skill", arg, db, db, FALSE)} \cup
      (IF HasSkillNamed(db, user_id, skill_name)
       THEN \* st.warning, return False: no commit, no rollback
            {Read("db_add_skill", arg, db, FALSE)}
       ELSE IF skill = None /\ Cardinality(db.Skill) >= MaxSkills
       THEN {}
       ELSE \* the INSERT INTO Student_Skill raises, or all is committed
            {Failed("db_add_skill", arg, db, work1, FALSE),
             Committed("db_add_skill", arg, work2, TRUE)})

db_update_skill(db, user_id, skill_id, proficiency) ==
  LET arg  == [user_id |-> user_id, skill_id |-> skill_id]
      hit  == {r \in DOMAIN db.Student_Skill :
                 r.student_id = user_id /\ r.skill_id = skill_id}
      n    == BagCardinality(BagRestrict(db.Student_Skill, hit))
      rest == BagRestrict(db.Student_Skill, DOMAIN db.Student_Skill \ hit)
      new  == [student_id |-> user_id, skill_id |-> skill_id,
               proficiency_level |-> proficiency]
      work == [db EXCEPT !.Student_Skill =
                 IF n = 0 THEN @ ELSE rest (+) [r \in {new} |-> n]]
  IN  {Failed("db_update_skill", arg, db, db, FALSE),
       Committed("db_update_skill", arg, work, TRUE)}

db_remove_skill(db, user_id, skill_id) ==
  LET arg  == [user_id |-> user_id, skill_id |-> skill_id]
      work == [db EXCEPT !.Student_Skill =
                 BagRestrict(@, {r \in DOMAIN @ :
                   ~ (r.student_id = user_id /\ r.skill_id = skill_id)})]
  IN  {Failed("db_remove_skill", arg, db, db, FALSE),
       Committed("db_remove_skill", arg, work, TRUE)}

\* The contracts of projects In Progress: those the user works on and
\* those of the user's own projects.
db_get_my_contracts(db, user_id) ==
  LET arg == [user_id |-> user_id]
      active == {<<c, p>> \in db.Contract \X db.Project :
                   c.project_id = p.project_id /\ p.status = "In Progress"}
      freelance == {[contract_id |-> y[1].contract_id,
                     project_owner_id |-> y[2].student_id] :
                      y \in {z \in active : z[1].student_id = user_id}}
      owner == {[contract_id |-> y[1].contract_id,
                 freelancer_id |-> y[1].student_id] :
                  y \in {z \in active : z[2].student_id = user_id}}
  IN  {FailedRead("db_get_my_contracts", arg, db, <<<<>>, <<>>>>),
       Read("db_get_my_contracts", arg, db,
            <<RowsByKey(freelance, "contract_id"), RowsByKey(owner, "contract_id")>>)}

db_complete_contract(db, contract_id) ==
  LET arg == [contract_id |-> contract_id]
      sp  == sp_CompleteContract(db, contract_id)
  IN  {Failed("db_complete_contract", arg, db, db, FALSE)} \cup
      (IF sp.ok THEN {Committed("db_complete_contract", arg, sp.db, TRUE)}
       ELSE {})

db_create_review(db, review_text, rating, contract_id, reviewer_id) ==
  LET arg == [contract_id |-> contract_id, reviewer_id |-> reviewer_id]
      sp  == sp_CreateReview(db, review_text, rating, contract_id, reviewer_id)
  IN  {Failed("db_create_review", arg, db, db, FALSE)} \cup
      (IF sp.ok THEN {Committed("db_create_review", arg, sp.db, TRUE)}
       ELSE {})

db_create_payment(db, amount, payment_method, contract_id) ==
  LET arg  == [contract_id |-> contract_id]
      work == [db EXCEPT !.Payment = @ (+) SetToBag(
                 {[amount |-> amount, status |-> "Paid",
                   payment_method |-> payment_method,
                   contract_id |-> contract_id]})]
  IN  {Failed("db_create_payment", arg, db, db, FALSE)} \cup
      (IF BagCardinality(db.Payment) < MaxPayments
       THEN {Committed("db_create_payment", arg, work, TRUE)}
       ELSE {})

db_get_my_reviews(db, user_id) ==
  LET arg     == [user_id |-> user_id]
      stats   == [count |-> fn_GetStudentReviewCount(db, user_id)]
      reviews == BagRestrict(db.Review,
                   {r \in DOMAIN db.Review : r.student_id = user_id})
  IN  {FailedRead("db_get_my_reviews", arg, db, <<None, EmptyBag>>),
       Read("db_get_my_reviews", arg, db, <<stats, reviews>>)}

\* ------------------------------------------------------------------ state
VARIABLES
  session,   \* st.session_state: a dict, its keys are its DOMAIN
  page,      \* the value of the sidebar radio "Navigation"
  db,        \* the committed database
  pc,        \* where the script run is: "idle", "connect", "route"
  conn,      \* main's local conn: "unset", "open", or "none" for None
  rerun,     \* st.rerun() was called: the next run starts at once
  openConns, \* connections of this session opened and not closed
  calls,     \* the data-access calls of the current (last) run, in order
  event,     \* the widget event the current (last) run handled
  rendered   \* what the last finished run left on the screen

vars ==
  <<session, page, db, pc, conn, rerun, openConns, calls, event, rendered>>

Pages ==
  {"Dashboard", "View Available Projects", "Create a New Project",
   "Manage My Projects", "Manage My Skills", "View Active Contracts",
   "View My Reviews"}

\* Widgets are named by their Streamlit key: <<kind, id>>.
Key(kind, id) == <<kind, id>>
NoEvent == [key |-> Key("none", 0), f |-> None]
Ev(kind, id, f) == [key |-> Key(kind, id), f |-> f]

LoginKeys == {Key("login_form", 0), Key("signup_form", 0)}
SidebarKeys == {Key("nav", 0), Key("logout", 0)}

\* Python truthiness of a fetched record or None.
Truthy(v) == v # None

\* What a page did in one run: the session state and database it left,
\* its data-access calls, the widgets it drew besides the sidebar, and
\* whether it ended in st.rerun().
Result(s, d, cs, keys, rr) ==
  [session |-> s, db |-> d, calls |-> cs, keys |-> keys, rerun |-> rr]

Init ==
  /\ session = << >>
  /\ page = "Dashboard"
  /\ db = SeedDb
  /\ pc = "idle"
  /\ conn = "unset"
  /\ rerun = FALSE
  /\ openConns = 0
  /\ calls = << >>
  /\ event = NoEvent
  /\ rendered = [view |-> "none", keys |-> {}]

\* ------------------------------------------------------------------ main
\* main(), lines 628-634: a run starts (the first load, a widget event, or
\* st.rerun()) and the session-state keys are initialised when missing.
InitSessionState(s) ==
  LET s1 == IF "logged_in" \in DOMAIN s THEN s ELSE s @@ [logged_in |-> FALSE]
  IN  IF "user" \in DOMAIN s1 THEN s1 ELSE s1 @@ [user |-> None]

MainInit ==
  /\ pc = "idle"
  /\ rerun \/ rendered.view = "none" \/ rendered.keys # {}
  /\ session' = InitSessionState(session)
  /\ calls' = << >>
  /\ event' = NoEvent
  /\ pc' = "connect"
  /\ conn' = "unset"
  /\ UNCHANGED <<page, db, rerun, openConns, rendered>>

\* connect_to_db() returns a connection; nothing in the script closes it.
ConnectOk ==
  /\ pc = "connect"
  /\ openConns < MaxOpenConns
  /\ openConns' = openConns + 1
  /\ conn' = "open"
  /\ pc' = "route"
  /\ UNCHANGED <<session, page, db, rerun, calls, event, rendered>>

\* ConnectFail without the return of line 640: the routing goes on.
ConnectFail_NoReturn ==
  /\ pc = "connect"
  /\ conn' = "none"
  /\ pc' = "route"
  /\ UNCHANGED <<session, page, db, rerun, openConns, calls, event, rendered>>

\* connect_to_db() returns None: st.error and main returns.
ConnectFail ==
  /\ pc = "connect"
  /\ rendered' = [view |-> "error", keys |-> {}]
  /\ page' = "Dashboard"
  /\ rerun' = FALSE
  /\ conn' = "none"
  /\ pc' = "idle"
  /\ UNCHANGED <<session, db, openConns, calls, event>>

\* A connection object of an earlier run is reclaimed by the interpreter.
ConnCollected ==
  /\ pc = "idle"
  /\ openConns > 0
  /\ openConns' = openConns - 1
  /\ UNCHANGED <<session, page, db, pc, conn, rerun, calls, event, rendered>>

\* The browser tab is reloaded: a new session with an empty session state
\* on the same database.
NewSession ==
  /\ pc = "idle"
  /\ ~ rerun
  /\ rendered.view # "none"
  /\ session' = << >>
  /\ page' = "Dashboard"
  /\ rendered' = [view |-> "none", keys |-> {}]
  /\ calls' = << >>
  /\ event' = NoEvent
  /\ openConns' = 0
  /\ conn' = "unset"
  /\ UNCHANGED <<db, pc, rerun>>

\* The end of a run that reached the routing: the page's result becomes
\* the state, and the screen shows what was drawn unless st.rerun() cut
\* the run short.
Finish(r, ev, view, newPage) ==
  /\ session' = r.session
  /\ db' = r.db
  /\ calls' = r.calls
  /\ event' = ev
  /\ rerun' = r.rerun
  /\ rendered' = IF r.rerun THEN [view |-> "rerun", keys |-> {}]
                 ELSE [view |-> view, keys |-> r.keys]
  /\ page' = newPage
  /\ pc' = "idle"
  /\ UNCHANGED <<conn, openConns>>

\* ------------------------------------------------------------------ login page
\* login_form without the test of line 359.
login_form_NoCheck(s, d, email, password) ==
  IF email = "" \/ password = ""
  THEN {Result(s, d, << >>, LoginKeys, FALSE)}
  ELSE {Result([s EXCEPT !.logged_in = TRUE, !.user = o.ret],
               o.db, <<o.log>>, LoginKeys, TRUE) :
          o \in db_student_login(d, email, password)}

\* show_login_page, the login form (lines 349-365).
login_form(s, d, email, password) ==
  IF email = "" \/ password = ""
  THEN {Result(s, d, << >>, LoginKeys, FALSE)}
  ELSE {IF Truthy(o.ret)
        THEN Result([s EXCEPT !.logged_in = TRUE, !.user = o.ret],
                    o.db, <<o.log>>, LoginKeys, TRUE)
        ELSE Result(s, o.db, <<o.log>>, LoginKeys, FALSE) :
          o \in db_student_login(d, email, password)}

\* signup_form without the elif of line 383.
signup_form_NoConfirmCheck(s, d, email, name, password, confirm_password, department) ==
  IF email = "" \/ name = "" \/ password = "" \/ department = ""
  THEN {Result(s, d, << >>, LoginKeys, FALSE)}
  ELSE {Result(s, o.db, <<o.log>>, LoginKeys, FALSE) :
          o \in db_student_register(d, name, email, password)}

\* show_login_page, the sign-up form (lines 369-390).
signup_form(s, d, email, name, password, confirm_password, department) ==
  IF email = "" \/ name = "" \/ password = "" \/ department = ""
  THEN {Result(s, d, << >>, LoginKeys, FALSE)}
  ELSE IF password # confirm_password
  THEN {Result(s, d, << >>, LoginKeys, FALSE)}
  ELSE {Result(s, o.db, <<o.log>>, LoginKeys, FALSE) :
          o \in db_student_register(d, name, email, password)}

\* The routing is reached with a connection (line 638 returns otherwise).
Routing == pc = "route"
LoggedOut == Routing /\ session.logged_in = FALSE
LoggedIn == Routing /\ session.logged_in # FALSE

\* The user can act on a widget of the last screen, unless this run is the
\* one st.rerun() started.
CanFire(key) == ~ rerun /\ key \in rendered.keys

\* The login page drawn with no form submitted.
LoginPageView ==
  /\ LoggedOut
  /\ rerun \/ rendered.view = "none"
  /\ Finish(Result(session, db, << >>, LoginKeys, FALSE), NoEvent, "login",
            "Dashboard")

LoginSubmit ==
  /\ LoggedOut
  /\ CanFire(Key("login_form", 0))
  /\ \E email \in Emails, password \in Passwords :
       \E r \in login_form(session, db, email, password) :
         Finish(r, Ev("login_form", 0, [email |-> email, password |-> password]),
                "login", "Dashboard")

SignupSubmit ==
  /\ LoggedOut
  /\ CanFire(Key("signup_form", 0))
  /\ \E email \in Emails, name \in Names, password \in Passwords,
        confirm_password \in Passwords, department \in Departments :
       \E r \in signup_form(session, db, email, name, password,
                            confirm_password, department) :
         Finish(r, Ev("signup_form", 0,
                      [email |-> email, name |-> name, password |-> password,
                       confirm_password |-> confirm_password,
                       department |-> department]),
                "login", "Dashboard")

\* ------------------------------------------------------------------ pages
user_id(s) == s.user.student_id

\* show_dashboard_page
show_dashboard_page(s, d) ==
  UNION {{Result(s, o2.db, <<o1.log, o2.log>>, {}, FALSE) :
            o2 \in db_get_my_contracts(o1.db, user_id(s))} :
           o1 \in db_get_my_reviews(d, user_id(s))}

\* show_my_reviews_page
show_my_reviews_page(s, d) ==
  {Result(s, o.db, <<o.log>>, {}, FALSE) : o \in db_get_my_reviews(d, user_id(s))}

\* show_view_projects_page: one Apply button per open project.
show_view_projects_page(s, d, ev) ==
  UNION {LET projects == o.ret
             keys == {Key("apply", projects[i].project_id) :
                        i \in DOMAIN projects}
         IN  IF ev.key[1] = "apply" /\ ev.key \in keys
             THEN {Result(s, a.db, <<o.log, a.log>>, keys, FALSE) :
                     a \in db_apply_for_project(o.db, user_id(s), ev.key[2])}
             ELSE {Result(s, o.db, <<o.log>>, keys, FALSE)} :
           o \in db_get_open_projects(d)}

\* show_create_project_page without the test of line 457.
show_create_project_page_NoValidation(s, d, ev) ==
  LET keys == {Key("create_project_form", 0)}
  IN  IF ev.key # Key("create_project_form", 0)
      THEN {Result(s, d, << >>, keys, FALSE)}
      ELSE {Result(s, o.db, <<o.log>>, keys, FALSE) :
              o \in db_create_project(d, user_id(s), ev.f.title, ev.f.description)}

\* show_create_project_page
show_create_project_page(s, d, ev) ==
  LET keys == {Key("create_project_form", 0)}
  IN  IF ev.key # Key("create_project_form", 0)
      THEN {Result(s, d, << >>, keys, FALSE)}
      ELSE IF ev.f.title = "" \/ ev.f.description = ""
      THEN {Result(s, d, << >>, keys, FALSE)}
      ELSE {Result(s, o.db, <<o.log>>, keys, FALSE) :
              o \in db_create_project(d, user_id(s), ev.f.title, ev.f.description)}

\* show_manage_my_projects_page, the loop over my_projects: the pending
\* applications of each project are fetched and drawn with their Accept
\* and Reject buttons; a click that succeeds ends the run in st.rerun().
RECURSIVE manage_projects_loop(_, _, _, _, _, _)
manage_projects_loop(s, d, projs, ev, cs, keys) ==
  IF projs = << >> THEN {Result(s, d, cs, keys, FALSE)}
  ELSE UNION {
    LET apps == o.ret
        ks   == keys \cup
                {Key("accept", apps[i].application_id) : i \in DOMAIN apps} \cup
                {Key("reject", apps[i].application_id) : i \in DOMAIN apps}
        mine == \E i \in DOMAIN apps : apps[i].application_id = ev.key[2]
    IN  IF ev.key[1] \in {"accept", "reject"} /\ mine
        THEN UNION {
               IF a.ret THEN {Result(s, a.db, cs \o <<o.log, a.log>>, ks, TRUE)}
               ELSE manage_projects_loop(s, a.db, Tail(projs), ev,
                                         cs \o <<o.log, a.log>>, ks) :
                 a \in IF ev.key[1] = "accept"
                       THEN db_accept_application(o.db, ev.key[2])
                       ELSE db_reject_application(o.db, ev.key[2])}
        ELSE manage_projects_loop(s, o.db, Tail(projs), ev, cs \o <<o.log>>, ks) :
      o \in db_get_pending_applications(d, Head(projs).project_id)}

show_manage_my_projects_page(s, d, ev) ==
  UNION {manage_projects_loop(s, o.db, o.ret, ev, <<o.log>>, {}) :
           o \in db_get_my_projects(d, user_id(s))}

\* show_manage_skills_page
show_manage_skills_page(s, d, ev) ==
  UNION {
    LET my_skills == o.ret
        keys == {Key("update_skill", r.skill_id) : r \in my_skills} \cup
                {Key("remove_skill", r.skill_id) : r \in my_skills} \cup
                {Key("add_skill_form", 0)}
    IN  IF ev.key[1] = "update_skill" /\ ev.key \in keys
        THEN {Result(s, u.db, <<o.log, u.log>>, keys, u.ret) :
                u \in db_update_skill(o.db, user_id(s), ev.key[2], ev.f.new_level)}
        ELSE IF ev.key[1] = "remove_skill" /\ ev.key \in keys
        THEN {Result(s, u.db, <<o.log, u.log>>, keys, u.ret) :
                u \in db_remove_skill(o.db, user_id(s), ev.key[2])}
        ELSE IF ev.key = Key("add_skill_form", 0) /\ ev.f.skill_name # ""
        THEN {Result(s, a.db, <<o.log, a.log>>, keys, a.ret) :
                a \in db_add_skill(o.db, user_id(s), ev.f.skill_name,
                                   ev.f.proficiency)}
        ELSE {Result(s, o.db, <<o.log>>, keys, FALSE)} :
      o \in db_get_my_skills(d, user_id(s))}

\* DelContractToComplete without the del of line 593.
DelContractToComplete_Keep(s) == s

\* del st.session_state.contract_to_complete
DelContractToComplete(s) ==
  [k \in DOMAIN s \ {"contract_to_complete"} |-> s[k]]

\* st.session_state.contract_to_complete = contract
SetContractToComplete(s, contract) ==
  [k \in DOMAIN s \cup {"contract_to_complete"} |->
     IF k = "contract_to_complete" THEN contract ELSE s[k]]

\* complete_steps with the three calls made one after the other and their
\* results tested afterwards.
complete_steps_NoStop(s, d, first, keys, contract, f) ==
  UNION {UNION {
    {LET all == o1.ret /\ o2.ret /\ o3.ret
     IN  Result(IF all THEN DelContractToComplete(s) ELSE s, o3.db,
                <<first, o1.log, o2.log, o3.log>>, keys, all) :
       o3 \in db_create_payment(o2.db, f.amount, f.payment_method,
                                contract.contract_id)} :
      o2 \in db_create_review(o1.db, f.review_text, f.rating,
                              contract.contract_id, user_id(s))} :
    o1 \in db_complete_contract(d, contract.contract_id)}

\* complete_steps as one transaction: a failing step undoes the steps
\* before it.
complete_steps_OneTransaction(s, d, first, keys, contract, f) ==
  UNION {
    IF ~ o1.ret THEN {Result(s, d, <<first, o1.log>>, keys, FALSE)}
    ELSE UNION {
      IF ~ o2.ret THEN {Result(s, d, <<first, o1.log, o2.log>>, keys, FALSE)}
      ELSE {IF o3.ret
            THEN Result(DelContractToComplete(s), o3.db,
                        <<first, o1.log, o2.log, o3.log>>, keys, TRUE)
            ELSE Result(s, d, <<first, o1.log, o2.log, o3.log>>, keys, FALSE) :
              o3 \in db_create_payment(o2.db, f.amount, f.payment_method,
                                       contract.contract_id)} :
        o2 \in db_create_review(o1.db, f.review_text, f.rating,
                                contract.contract_id, user_id(s))} :
      o1 \in db_complete_contract(d, contract.contract_id)}

\* The "3-step transaction" of the completion form (lines 588-600), after
\* db_get_my_contracts (its record is first) and the validation.
complete_steps(s, d, first, keys, contract, f) ==
  UNION {
    IF ~ o1.ret THEN {Result(s, o1.db, <<first, o1.log>>, keys, FALSE)}
    ELSE UNION {
      IF ~ o2.ret THEN {Result(s, o2.db, <<first, o1.log, o2.log>>, keys, FALSE)}
      ELSE {IF o3.ret
            THEN Result(DelContractToComplete(s), o3.db,
                        <<first, o1.log, o2.log, o3.log>>, keys, TRUE)
            ELSE Result(s, o3.db, <<first, o1.log, o2.log, o3.log>>, keys, FALSE) :
              o3 \in db_create_payment(o2.db, f.amount, f.payment_method,
                                       contract.contract_id)} :
        o2 \in db_create_review(o1.db, f.review_text, f.rating,
                                contract.contract_id, user_id(s))} :
      o1 \in db_complete_contract(d, contract.contract_id)}

\* show_active_contracts_page
show_active_contracts_page(s, d, ev) ==
  UNION {
    LET owner_contracts == o.ret[2]
        buttons == {Key("complete", owner_contracts[i].contract_id) :
                      i \in DOMAIN owner_contracts}
        s1 == IF ev.key[1] = "complete" /\ ev.key \in buttons
              THEN SetContractToComplete(s,
                     CHOOSE c \in {owner_contracts[i] : i \in DOMAIN owner_contracts} :
                       c.contract_id = ev.key[2])
              ELSE s
    IN  IF "contract_to_complete" \notin DOMAIN s1
        THEN {Result(s1, o.db, <<o.log>>, buttons, FALSE)}
        ELSE LET contract == s1.contract_to_complete
                 form == Key("complete_form", contract.contract_id)
                 keys == buttons \cup {form}
             IN  IF ev.key # form
                 THEN {Result(s1, o.db, <<o.log>>, keys, FALSE)}
                 ELSE IF ev.f.review_text = "" \/ ev.f.amount = 0
                 THEN {Result(s1, o.db, <<o.log>>, keys, FALSE)}
                 ELSE complete_steps(s1, o.db, o.log, keys, contract, ev.f) :
      o \in db_get_my_contracts(d, user_id(s))}

\* The routing of main() for a logged-in session (lines 668-681).
show_page(p, s, d, ev) ==
  CASE p = "Dashboard" -> show_dashboard_page(s, d)
    [] p = "View Available Projects" -> show_view_projects_page(s, d, ev)
    [] p = "Create a New Project" -> show_create_project_page(s, d, ev)
    [] p = "Manage My Projects" -> show_manage_my_projects_page(s, d, ev)
    [] p = "Manage My Skills" -> show_manage_skills_page(s, d, ev)
    [] p = "View Active Contracts" -> show_active_contracts_page(s, d, ev)
    [] p = "View My Reviews" -> show_my_reviews_page(s, d)

\* The sidebar is drawn before the page.
WithSidebar(r) == [r EXCEPT !.keys = @ \cup SidebarKeys]

\* The ids of the widgets of one kind on the last screen.
Shown(kind) == {k[2] : k \in {x \in rendered.keys : x[1] = kind}}

\* ------------------------------------------------------------------ sidebar
\* Logout that clears logged_in and leaves the user record.
Logout_KeepUser ==
  /\ LoggedIn
  /\ CanFire(Key("logout", 0))
  /\ Finish(Result([session EXCEPT !.logged_in = FALSE], db, << >>, {}, TRUE),
            Ev("logout", 0, None), "rerun", page)

\* Logout without the st.rerun() of line 665: the page of this run is
\* still drawn for the user who was logged in.
Logout_NoRerun ==
  /\ LoggedIn
  /\ CanFire(Key("logout", 0))
  /\ \E r \in show_page(page, session, db, NoEvent) :
       Finish(WithSidebar([r EXCEPT !.session =
                [session EXCEPT !.logged_in = FALSE, !.user = None]]),
              Ev("logout", 0, None), page, page)

\* The Logout button (lines 662-665).
Logout ==
  /\ LoggedIn
  /\ CanFire(Key("logout", 0))
  /\ Finish(Result([session EXCEPT !.logged_in = FALSE, !.user = None],
                   db, << >>, {}, TRUE),
            Ev("logout", 0, None), "rerun", page)

\* A page drawn with no widget of it fired: the run st.rerun() started, or
\* the user picked a page in the sidebar radio.
PageView ==
  /\ LoggedIn
  /\ \E p \in Pages :
       /\ IF rerun THEN p = page ELSE Key("nav", 0) \in rendered.keys
       /\ \E r \in show_page(p, session, db, NoEvent) :
            Finish(WithSidebar(r), NoEvent, p, p)

\* A widget of the current page fired.
Fire(ev) ==
  /\ LoggedIn
  /\ CanFire(ev.key)
  /\ \E r \in show_page(page, session, db, ev) :
       Finish(WithSidebar(r), ev, page, page)

Apply == \E id \in Shown("apply") : Fire(Ev("apply", id, None))

CreateProjectSubmit ==
  /\ page = "Create a New Project"
  /\ \E title \in Titles, description \in Descriptions :
       Fire(Ev("create_project_form", 0,
               [title |-> title, description |-> description]))

Accept == \E id \in Shown("accept") : Fire(Ev("accept", id, None))

Reject == \E id \in Shown("reject") : Fire(Ev("reject", id, None))

UpdateSkill ==
  \E id \in Shown("update_skill"), new_level \in ProficiencyLevels :
    Fire(Ev("update_skill", id, [new_level |-> new_level]))

RemoveSkill == \E id \in Shown("remove_skill") : Fire(Ev("remove_skill", id, None))

AddSkillSubmit ==
  /\ page = "Manage My Skills"
  /\ \E skill_name \in SkillNames, proficiency \in ProficiencyLevels :
       Fire(Ev("add_skill_form", 0,
               [skill_name |-> skill_name, proficiency |-> proficiency]))

CompleteClick == \E id \in Shown("complete") : Fire(Ev("complete", id, None))

CompletionSubmit ==
  \E id \in Shown("complete_form"), review_text \in ReviewTexts,
     rating \in Ratings, amount \in Amounts, payment_method \in PaymentMethods :
    Fire(Ev("complete_form", id,
            [review_text |-> review_text, rating |-> rating,
             amount |-> amount, payment_method |-> payment_method]))

Next ==
  \/ MainInit \/ ConnectOk \/ ConnectFail \/ ConnCollected \/ NewSession
  \/ LoginPageView \/ LoginSubmit \/ SignupSubmit
  \/ Logout \/ PageView
  \/ Apply \/ CreateProjectSubmit \/ Accept \/ Reject
  \/ UpdateSkill \/ RemoveSkill \/ AddSkillSubmit
  \/ CompleteClick \/ CompletionSubmit

Spec == Init /\ [][Next]_vars

\* ------------------------------------------------------------------ properties
CompletionFns ==
  <<"db_complete_contract", "db_create_review", "db_create_payment">>

IsStep(c) == \E i \in DOMAIN CompletionFns : c.fn = CompletionFns[i]

\* The completion steps among the calls of a run, in order.
Steps(cs) == SelectSeq(cs, IsStep)

NoCall(cs, fn) == \A i \in DOMAIN cs : cs[i].fn # fn

\* C1: in every run the completion steps that were invoked are
\* db_complete_contract, db_create_review, db_create_payment in this
\* order, all for the contract of the submitted form; each step after the
\* first is invoked only when the step before it returned True; a
\* submission that passes the validation invokes the first step, and no
\* step is invoked in a run that is not a submission of the form.
C1_StepsInOrderStopAtFailure ==
  LET steps == Steps(calls)
  IN  /\ Len(steps) <= 3
      /\ \A i \in DOMAIN steps :
           /\ steps[i].fn = CompletionFns[i]
           /\ steps[i].arg.contract_id = event.key[2]
           /\ i > 1 => steps[i - 1].ret
      /\ steps # << >> => event.key[1] = "complete_form"
      /\ (/\ event.key[1] = "complete_form"
          /\ event.f.review_text # ""
          /\ event.f.amount # 0) => Len(steps) >= 1

\* The review failed after the completion succeeded: the payment was not
\* attempted.
C1_Witness ==
  /\ Len(Steps(calls)) = 2
  /\ Steps(calls)[1].ret
  /\ ~ Steps(calls)[2].ret

\* C3: a run that handles a sign-up submission whose password differs
\* from the confirm-password value does not invoke db_student_register
\* and leaves the Student table as it was.
C3_MismatchStep ==
  (/\ pc = "route"
   /\ event'.key = Key("signup_form", 0)
   /\ event'.f.password # event'.f.confirm_password)
  => /\ NoCall(calls', "db_student_register")
     /\ db'.Student = db.Student

C3_MismatchNeverRegisters == [][C3_MismatchStep]_vars

\* A mismatching submission with every required field filled in.
C3_Witness ==
  /\ event.key = Key("signup_form", 0)
  /\ event.f.password # event.f.confirm_password
  /\ event.f.email # "" /\ event.f.name # ""
  /\ event.f.password # "" /\ event.f.department # ""
  /\ pc = "idle"

\* C4: the run of a submission with an empty required field does not
\* invoke the data-access function of its form: db_student_login,
\* db_student_register, db_create_project, db_add_skill, and for the
\* completion form none of the three completion steps.
C4_EmptyFieldNeverCalls ==
  /\ (/\ event.key = Key("login_form", 0)
      /\ event.f.email = "" \/ event.f.password = "")
     => NoCall(calls, "db_student_login")
  /\ (/\ event.key = Key("signup_form", 0)
      /\ \/ event.f.email = "" \/ event.f.name = ""
         \/ event.f.password = "" \/ event.f.department = "")
     => NoCall(calls, "db_student_register")
  /\ (/\ event.key = Key("create_project_form", 0)
      /\ event.f.title = "" \/ event.f.description = "")
     => NoCall(calls, "db_create_project")
  /\ (/\ event.key = Key("add_skill_form", 0)
      /\ event.f.skill_name = "")
     => NoCall(calls, "db_add_skill")
  /\ (/\ event.key[1] = "complete_form"
      /\ event.f.review_text = "")
     => Steps(calls) = << >>

\* The completion form submitted with an empty review comment.
C4_Witness ==
  /\ event.key[1] = "complete_form"
  /\ event.f.review_text = ""
  /\ pc = "idle"

ContractCompleted(d, cid) ==
  \E c \in d.Contract, p \in d.Project :
     /\ c.contract_id = cid
     /\ p.project_id = c.project_id
     /\ p.status = "Completed"

ReviewCount(d, cid) ==
  BagCardinality(BagRestrict(d.Review,
    {r \in DOMAIN d.Review : r.contract_id = cid}))

PaymentCount(d, cid) ==
  BagCardinality(BagRestrict(d.Payment,
    {r \in DOMAIN d.Payment : r.contract_id = cid}))

\* C2: when a submission of the completion form fails at step n, the
\* steps before n were committed and stay in the database (the project is
\* Completed when n > 1, the review is there when n = 3), the failing
\* step left nothing, and conn.rollback() was called by the failing step
\* and by no other call of the run.
C2_FailureStep ==
  (pc = "route" /\ event'.key[1] = "complete_form")
  => LET steps == Steps(calls')
         cid == event'.key[2]
         n == Len(steps)
     IN  (n >= 1 /\ ~ steps[n].ret)
         => /\ n >= 2 => ContractCompleted(db', cid)
            /\ ReviewCount(db', cid) =
                 ReviewCount(db, cid) + (IF n = 3 THEN 1 ELSE 0)
            /\ PaymentCount(db', cid) = PaymentCount(db, cid)
            /\ n = 1 => db' = db
            /\ \A i \in DOMAIN steps :
                 /\ steps[i].rb <=> i = n
                 /\ steps[i].commit <=> i < n
            /\ \A i \in DOMAIN calls' : calls'[i].rb => IsStep(calls'[i])

C2_NoCompensation == [][C2_FailureStep]_vars

\* The payment failed: the contract is completed and reviewed, not paid.
C2_Witness ==
  /\ event.key[1] = "complete_form"
  /\ Len(Steps(calls)) = 3
  /\ ~ Steps(calls)[3].ret
  /\ Steps(calls)[3].rb
  /\ ContractCompleted(db, event.key[2])
  /\ ReviewCount(db, event.key[2]) = 1
  /\ PaymentCount(db, event.key[2]) = 0

WriteFns ==
  {"db_student_register", "db_apply_for_project", "db_create_project",
   "db_accept_application", "db_reject_application", "db_add_skill",
   "db_update_skill", "db_remove_skill", "db_complete_contract",
   "db_create_review", "db_create_payment"}

ReadFns ==
  {"db_student_login", "db_get_open_projects", "db_get_my_projects",
   "db_get_pending_applications", "db_get_my_skills", "db_get_my_contracts",
   "db_get_my_reviews"}

\* What each function returns from its except-branch.
FailureValue(fn) ==
  CASE fn \in WriteFns -> FALSE
    [] fn = "db_student_login" -> None
    [] fn \in {"db_get_open_projects", "db_get_my_projects",
               "db_get_pending_applications"} -> << >>
    [] fn = "db_get_my_skills" -> {}
    [] fn = "db_get_my_contracts" -> << << >>, << >> >>
    [] fn = "db_get_my_reviews" -> <<None, EmptyBag>>

C6_FailedConnectStep ==
  conn' = "none"
  => /\ session' = session
     /\ db' = db
     /\ calls' = << >>
     /\ rendered'.view \notin {"login"} \cup Pages

C6_ConnectFailureIsFatal == [][C6_FailedConnectStep]_vars

\* The connection failed in a run of a logged-in session.
C6_Witness ==
  /\ conn = "none"
  /\ pc = "idle"
  /\ session.logged_in = TRUE
  /\ session.user # None
  /\ rendered.view = "error"

\* C7 as stated: the session has at most one open connection.
C7_AtMostOneOpenConnection == openConns <= 1

HasContractToComplete(s) == "contract_to_complete" \in DOMAIN s

OwnsContract(d, uid, cid) ==
  \E c \in d.Contract, p \in d.Project :
     /\ c.contract_id = cid
     /\ p.project_id = c.project_id
     /\ p.student_id = uid

\* C8: contract_to_complete is set (or set to another contract) only by a
\* click on Complete Contract of a contract of one of the user's own
\* projects; a submission whose three steps all succeed removes it; after
\* any other submission it is still there, unchanged, and its form is
\* drawn.
C8_TransientStep ==
  /\ (/\ HasContractToComplete(session')
      /\ \/ ~ HasContractToComplete(session)
         \/ session'.contract_to_complete # session.contract_to_complete)
     => /\ pc = "route"
        /\ event'.key = Key("complete", session'.contract_to_complete.contract_id)
        /\ OwnsContract(db, session.user.student_id,
                        session'.contract_to_complete.contract_id)
  /\ (pc = "route" /\ event'.key[1] = "complete_form")
     => LET steps == Steps(calls')
        IN  IF Len(steps) = 3 /\ steps[3].ret
            THEN ~ HasContractToComplete(session')
            ELSE /\ HasContractToComplete(session)
                 /\ HasContractToComplete(session')
                 /\ session'.contract_to_complete = session.contract_to_complete
                 /\ Key("complete_form",
                        session.contract_to_complete.contract_id)
                      \in rendered'.keys

C8_ContractToCompleteIsTransient == [][C8_TransientStep]_vars

\* A submission failed at one of the steps and the form is still there.
C8_Witness ==
  /\ event.key[1] = "complete_form"
  /\ Steps(calls) # << >>
  /\ ~ Steps(calls)[Len(Steps(calls))].ret
  /\ HasContractToComplete(session)
  /\ event.key \in rendered.keys

\* C9: a login submission with both fields filled in calls
\* db_student_login once; when the call returns a record, logged_in is
\* True and user is that record (a Student row with this email and
\* password); when it returns None, the session state is unchanged and the
\* login page is drawn again.
C9_LoginStep ==
  (/\ pc = "route"
   /\ event'.key = Key("login_form", 0)
   /\ event'.f.email # "" /\ event'.f.password # "")
  => /\ Len(calls') = 1
     /\ calls'[1].fn = "db_student_login"
     /\ LET user == calls'[1].ret
        IN  IF user # None
            THEN /\ session'.logged_in = TRUE
                 /\ session'.user = user
                 /\ \E st \in db.Student :
                      /\ st.student_id = user.student_id
                      /\ st.email = event'.f.email
                      /\ st.password = event'.f.password
            ELSE /\ session' = session
                 /\ rendered'.view = "login"
                 /\ Key("login_form", 0) \in rendered'.keys

C9_LoginSetsSessionExactlyOnRecord == [][C9_LoginStep]_vars

\* A login that succeeded.
C9_Witness ==
  /\ event.key = Key("login_form", 0)
  /\ calls # << >>
  /\ calls[1].ret # None
  /\ session.logged_in = TRUE
  /\ session.user = calls[1].ret

SkillUnique(d) ==
  \A a, b \in d.Skill : a.skill_name = b.skill_name => a = b

\* The Student_Skill rows of a student whose skill has this name.
RowsFor(d, uid, name) ==
  BagCardinality(BagRestrict(d.Student_Skill,
    {r \in DOMAIN d.Student_Skill :
       /\ r.student_id = uid
       /\ \E k \in d.Skill : k.skill_id = r.skill_id /\ k.skill_name = name}))

StudentSkillUnique(d) ==
  \A st \in d.Student, name \in SkillNames :
     RowsFor(d, st.student_id, name) <= 1

\* C10: after every step Skill has at most one row per skill name and
\* Student_Skill at most one row per student and skill name; an Add Skill
\* submission with a name calls db_add_skill, which returns False and
\* changes nothing when the student has a skill of that name, and which,
\* when it returns True, has added one Student_Skill row for that name and
\* a Skill row only if there was none of that name.
C10_SkillStep ==
  /\ SkillUnique(db')
  /\ StudentSkillUnique(db')
  /\ (/\ pc = "route"
      /\ event'.key = Key("add_skill_form", 0)
      /\ event'.f.skill_name # "")
     => LET uid == session.user.student_id
            name == event'.f.skill_name
            named(d) == {k \in d.Skill : k.skill_name = name}
        IN  /\ Len(calls') = 2
            /\ calls'[2].fn = "db_add_skill"
            /\ RowsFor(db, uid, name) >= 1 => ~ calls'[2].ret /\ db' = db
            /\ calls'[2].ret
               => /\ RowsFor(db, uid, name) = 0
                  /\ RowsFor(db', uid, name) = 1
                  /\ db.Skill \subseteq db'.Skill
                  /\ Cardinality(named(db')) = 1
                  /\ named(db) # {} => db'.Skill = db.Skill
                  /\ BagCardinality(db'.Student_Skill) =
                       BagCardinality(db.Student_Skill) + 1

C10_SkillRowsUnique == [][C10_SkillStep]_vars

\* Two students have the same skill, on one Skill row.
C10_Witness ==
  /\ Cardinality(db.Skill) = 1
  /\ \E a, b \in DOMAIN db.Student_Skill :
       a.student_id # b.student_id /\ a.skill_id = b.skill_id

\* The db_add_skill calls of a run on which the server raised.
FailedAddSkill(cs) ==
  {i \in DOMAIN cs : cs[i].fn = "db_add_skill" /\ cs[i].err}

\* C11: a run in which db_add_skill failed on a database error got False
\* from it after conn.rollback(), nothing was committed, and the Skill and
\* Student_Skill tables are as they were before the run, also when the
\* call had inserted a new Skill row before the error.
C11_AddSkillStep ==
  (pc = "route" /\ FailedAddSkill(calls') # {})
  => /\ event'.key = Key("add_skill_form", 0)
     /\ \A i \in FailedAddSkill(calls') :
          /\ calls'[i].ret = FALSE
          /\ calls'[i].rb
          /\ ~ calls'[i].commit
     /\ db'.Skill = db.Skill
     /\ db'.Student_Skill = db.Student_Skill

C11_AddSkillAllOrNothing == [][C11_AddSkillStep]_vars

\* The Student_Skill insert failed after the insert of a new Skill row:
\* the rollback discarded the row and no skill of that name is left.
C11_Witness ==
  \E i \in FailedAddSkill(calls) :
    /\ calls[i].undone
    /\ calls[i].rb
    /\ ~ \E k \in db.Skill : k.skill_name = calls[i].arg.skill_name

Initialised(s) == {"logged_in", "user"} \subseteq DOMAIN s

\* C12: after every step that leaves an initialised session state,
\* logged_in is True exactly when user is not None; logged_in and user
\* change only in a run that handles a login submission (both are set:
\* True and the record db_student_login returned) or a click on Logout
\* (both are cleared: False and None).
C12_SessionStep ==
  Initialised(session')
  => /\ session'.logged_in \in BOOLEAN
     /\ session'.logged_in <=> session'.user # None
     /\ (/\ Initialised(session)
         /\ \/ session'.logged_in # session.logged_in
            \/ session'.user # session.user)
        => /\ pc = "route"
           /\ \/ /\ event'.key = Key("login_form", 0)
                 /\ ~ session.logged_in
                 /\ session'.logged_in
                 /\ session'.user = calls'[1].ret
              \/ /\ event'.key = Key("logout", 0)
                 /\ session.logged_in
                 /\ ~ session'.logged_in
                 /\ session'.user = None

C12_LoggedInIffUser == [][C12_SessionStep]_vars

\* Logout was clicked in a logged-in session: both are cleared.
C12_Witness ==
  /\ event.key = Key("logout", 0)
  /\ session.logged_in = FALSE
  /\ session.user = None

LoginFns == {"db_student_login", "db_student_register"}

\* C13: a run that reaches the routing with logged_in False invokes no
\* data-access function other than db_student_login and
\* db_student_register and draws no dashboard page; the run that handles
\* the click on Logout invokes no data-access function and draws no page.
C13_LoggedOutStep ==
  /\ (pc = "route" /\ session.logged_in = FALSE)
     => /\ \A i \in DOMAIN calls' : calls'[i].fn \in LoginFns
        /\ rendered'.view \notin Pages
        /\ rendered'.keys \subseteq LoginKeys
  /\ (pc = "route" /\ event'.key = Key("logout", 0))
     => /\ calls' = << >>
        /\ rendered'.view \notin Pages
        /\ rendered'.keys = {}
        /\ db' = db

C13_NoDataAccessLoggedOut == [][C13_LoggedOutStep]_vars

\* After a logout (the session still has the contract picked for
\* completion) a login attempt failed: the run called db_student_login
\* only and the login page is drawn again.
C13_Witness ==
  /\ Initialised(session)
  /\ session.logged_in = FALSE
  /\ HasContractToComplete(session)
  /\ event.key = Key("login_form", 0)
  /\ Len(calls) = 1
  /\ calls[1].fn = "db_student_login"
  /\ rendered.view = "login"

\* C14 as stated: the completion steps of a run are for a contract of a
\* project the logged-in user owns, and the completion form is drawn only
\* for such a contract.
C14_CompletionStep ==
  (pc = "route" /\ session.logged_in = TRUE)
  => /\ \A i \in DOMAIN calls' :
          IsStep(calls'[i])
          => OwnsContract(db, session.user.student_id,
                          calls'[i].arg.contract_id)
     /\ \A k \in rendered'.keys :
          k[1] = "complete_form"
          => OwnsContract(db, session.user.student_id, k[2])

C14_OnlyOwnerCompletes == [][C14_CompletionStep]_vars

\* C14, the calls alone: no completion step is invoked by a user who does
\* not own the project of the contract.
C14_StepsByOwnerStep ==
  (pc = "route" /\ session.logged_in = TRUE)
  => \A i \in DOMAIN calls' :
       IsStep(calls'[i])
       => OwnsContract(db, session.user.student_id,
                       calls'[i].arg.contract_id)

C14_StepsByOwner == [][C14_StepsByOwnerStep]_vars

\* C15 as stated: db_complete_contract is not invoked for a contract it
\* has completed before (the project is Completed from the first True
\* on), and db_create_review is not invoked for a contract that has a
\* review from an earlier True.
C15_OnceStep ==
  pc = "route"
  => \A i \in DOMAIN calls' :
       /\ calls'[i].fn = "db_complete_contract"
          => ~ ContractCompleted(db, calls'[i].arg.contract_id)
       /\ calls'[i].fn = "db_create_review"
          => ReviewCount(db, calls'[i].arg.contract_id) = 0

C15_EachStepAtMostOnce == [][C15_OnceStep]_vars

====
